---- MODULE Spec2Model ----
(***************************************************************************)
(* A model of pysteps.nowcasts.steps.forecast (STEPS ensemble nowcast).    *)
(*                                                                         *)
(* Fields are rows of pixels (a tuple of integers, NaN for a missing       *)
(* value); real numbers live on the integer grid.  Requested output times  *)
(* are counted in ticks, TicksPerStep ticks to one time step, so that a    *)
(* fractional time is an integer number of ticks; a field handed to the    *)
(* advection is kept in units of 1/TicksPerStep so that the linear blend   *)
(* of two fields stays on the grid.                                        *)
(*                                                                         *)
(* An optional value is a tuple: None is <<>>, a given value x is <<x>>.   *)
(* An optional method name is a string, "None" when it is not given.       *)
(***************************************************************************)
EXTENDS Integers, Sequences, FiniteSets, TLC

VARIABLES
    cfg,            \* the arguments of forecast(): inputs and options
    pc,             \* where forecast() is: check, init, loop, workers, collect, done, error, crashed
    err,            \* the exception raised, "" when none
    precip,         \* the working copy of the input stack (truncated, aligned, imputed)
    domain_mask,    \* pixels that are non-finite in any input frame
    phi,            \* the AR(p) coefficients, per cascade level
    noise_std_coeffs, \* noise adjustment coefficients, per cascade level
    precip_c,       \* per member, per level: the last ar_order normalized cascades
    precip_d,       \* per member: the recomposition buffer (statistics of the latest field)
    randgen_prec,   \* per member: the precipitation-noise stream; <<>> when the name is unbound
    randgen_motion, \* per member: the motion-noise stream; <<>> when the name is unbound
    vps,            \* per member: the velocity perturbator
    displacement,   \* per member: the displacement accumulator, <<>> for None
    precip_f,       \* per member: the retained output sequence
    mu_0,           \* conditional mean of the latest observation ('mean' matching)
    precip_m,       \* the deterministic companion cascades, <<>> for None
    precip_m_d,     \* the companion's recomposition buffer, <<>> when the name is unbound
    mask_prec,      \* the precipitation mask (one, or one per member under 'incremental')
    war,            \* wet area ratio (numerator, denominator)
    precip_f_prev,  \* per member: the field recomposed in the previous worker step
    t_prev,         \* per member: the time (ticks) of the last advection
    t_total,        \* per member: the total advected time (ticks)
    timesteps,      \* the normalized time steps: per loop index, the requested times
    t,              \* the loop index
    todo,           \* members whose worker of the current iteration has not run yet
    res,            \* per member: the outputs of the current iteration
    cb_log,         \* the arguments the callback received, in call order
    retval          \* what forecast() returned, <<>> before it returns

vars == <<cfg, pc, err, precip, domain_mask, phi, noise_std_coeffs, precip_c,
          precip_d, randgen_prec, randgen_motion, vps, displacement, precip_f,
          mu_0, precip_m, precip_m_d, mask_prec, war, precip_f_prev, t_prev,
          t_total, timesteps, t, todo, res, cb_log, retval>>

(***************************************************************************)
(* Bounds of the model.                                                    *)
(***************************************************************************)
TicksPerStep == 4      \* resolution of a fractional requested time
MaxEns == 2            \* largest ensemble size drawn
MaxSteps == 2          \* largest integer number of time steps drawn
RandMod == 5           \* size of the random streams' state space

\* F applied to the value of x: x is evaluated once
Bind(F(_), x) == CHOOSE v \in {F(y) : y \in {x}} : TRUE

None == <<>>
Unset == <<>>
Some(x) == <<x>>
IsNone(o) == o = <<>>
Val(o) == o[1]

NaN == -999
\* the infinities, below and above every value a field holds
NegInf == -998
PosInf == 998

(***************************************************************************)
(* Arithmetic on values that may be NaN.                                   *)
(***************************************************************************)
\* np.isfinite: neither NaN nor an infinity
IsFinite(x) == x \notin {NaN, NegInf, PosInf}
Add(a, b) == IF a = NaN \/ b = NaN THEN NaN ELSE a + b
Sub(a, b) == IF a = NaN \/ b = NaN THEN NaN ELSE a - b
Mul(a, b) == IF a = NaN \/ b = NaN THEN NaN ELSE a * b
Div(a, b) == IF a = NaN \/ b = NaN \/ b = 0 THEN NaN ELSE a \div b

Pixels(f) == 1..Len(f)
Range(s) == {s[i] : i \in DOMAIN s}

RECURSIVE SetMin(_)
SetMin(S) ==
    LET x == CHOOSE y \in S : TRUE
    IN IF S = {x} THEN x
       ELSE LET m == SetMin(S \ {x}) IN IF x < m THEN x ELSE m

SetMax(S) == -SetMin({-x : x \in S})

RECURSIVE SetSum(_, _)
SetSum(f, S) ==
    IF S = {} THEN 0
    ELSE LET x == CHOOSE y \in S : TRUE IN f[x] + SetSum(f, S \ {x})

\* np.nanmin: the least value that is not NaN, an infinity included; NaN
\* when there is none
NanMin(f) ==
    LET fin == {f[p] : p \in {q \in Pixels(f) : f[q] # NaN}}
    IN IF fin = {} THEN NaN ELSE SetMin(fin)

\* ndarray.min(): NaN when any value is NaN
FieldMin(f) == IF \E p \in Pixels(f) : f[p] = NaN THEN NaN ELSE SetMin(Range(f))

\* np.mean over the pixels of S, on the integer grid; the mean of nothing is NaN
MeanOver(f, S) ==
    IF S = {} \/ \E p \in S : f[p] = NaN THEN NaN
    ELSE SetSum(f, S) \div Cardinality(S)

(***************************************************************************)
(* Input validation.                                                       *)
(***************************************************************************)
\* sorted(): insertion of x into an ascending list, after its equals
RECURSIVE Insert(_, _)
Insert(x, s) ==
    IF s = <<>> THEN <<x>>
    ELSE IF x < Head(s) THEN <<x>> \o s
    ELSE <<Head(s)>> \o Insert(x, Tail(s))

RECURSIVE sorted(_)
sorted(s) == IF s = <<>> THEN <<>> ELSE Insert(s[Len(s)], sorted(SubSeq(s, 1, Len(s) - 1)))

\* a sortedness test that also refuses a repeated time
StrictlyAscendingTest(ts) ==
    ts.type = "list" /\ \E i, k \in 1..Len(ts.ts) : i < k /\ ts.ts[i] >= ts.ts[k]

\* the test of line 861
NotAscending(ts) == ts.type = "list" /\ ~(sorted(ts.ts) = ts.ts)

\* _check_inputs: the message of the ValueError raised, "" when none is
_check_inputs(c) ==
    IF c.precip_ndim # 3 THEN "precip must be a three-dimensional array"
    ELSE IF Len(c.precip) < c.ar_order + 1 THEN "precip.shape[0] < ar_order+1"
    ELSE IF c.velocity_ndim # 3 THEN "velocity must be a three-dimensional array"
    ELSE IF Len(c.precip[1]) # Len(c.velocity)
        THEN "dimension mismatch between precip and velocity"
    ELSE IF NotAscending(c.timesteps) THEN "timesteps is not in ascending order"
    ELSE ""

MaskMethods == {"obs", "sprog", "incremental", "None"}
NoiseStddevAdjs == {"auto", "fixed", "None"}

\* the option checks with the test of conditional against precip_thr left out
OptionsWithoutConditional(c) ==
    IF \E p \in Pixels(c.velocity) : ~IsFinite(c.velocity[p])
        THEN "velocity contains non-finite values"
    ELSE IF c.mask_method \notin MaskMethods THEN "unknown mask method"
    ELSE IF c.mask_method # "None" /\ IsNone(c.precip_thr)
        THEN "mask_method is not None but precip_thr is not set"
    ELSE IF c.noise_stddev_adj \notin NoiseStddevAdjs
        THEN "unknown noise_std_dev_adj method"
    ELSE IF IsNone(c.kmperpixel) /\ c.vel_pert_method # "None"
        THEN "vel_pert_method is set but kmperpixel=None"
    ELSE IF IsNone(c.kmperpixel) /\ c.mask_method = "incremental"
        THEN "mask_method='incremental' but kmperpixel=None"
    ELSE IF IsNone(c.timestep) /\ c.vel_pert_method # "None"
        THEN "vel_pert_method is set but timestep=None"
    ELSE IF IsNone(c.timestep) /\ c.mask_method = "incremental"
        THEN "mask_method='incremental' but timestep=None"
    ELSE ""

\* the option checks with the tests of timestep left out
OptionsWithoutTimestep(c) ==
    IF \E p \in Pixels(c.velocity) : ~IsFinite(c.velocity[p])
        THEN "velocity contains non-finite values"
    ELSE IF c.mask_method \notin MaskMethods THEN "unknown mask method"
    ELSE IF c.conditional /\ IsNone(c.precip_thr)
        THEN "conditional=True but precip_thr is not set"
    ELSE IF c.mask_method # "None" /\ IsNone(c.precip_thr)
        THEN "mask_method is not None but precip_thr is not set"
    ELSE IF c.noise_stddev_adj \notin NoiseStddevAdjs
        THEN "unknown noise_std_dev_adj method"
    ELSE IF IsNone(c.kmperpixel) /\ c.vel_pert_method # "None"
        THEN "vel_pert_method is set but kmperpixel=None"
    ELSE IF IsNone(c.kmperpixel) /\ c.mask_method = "incremental"
        THEN "mask_method='incremental' but kmperpixel=None"
    ELSE ""

\* the option checks of lines 277-308, in the order of the code
CheckOptions(c) ==
    IF \E p \in Pixels(c.velocity) : ~IsFinite(c.velocity[p])
        THEN "velocity contains non-finite values"
    ELSE IF c.mask_method \notin MaskMethods THEN "unknown mask method"
    ELSE IF c.conditional /\ IsNone(c.precip_thr)
        THEN "conditional=True but precip_thr is not set"
    ELSE IF c.mask_method # "None" /\ IsNone(c.precip_thr)
        THEN "mask_method is not None but precip_thr is not set"
    ELSE IF c.noise_stddev_adj \notin NoiseStddevAdjs
        THEN "unknown noise_std_dev_adj method"
    ELSE IF IsNone(c.kmperpixel) /\ c.vel_pert_method # "None"
        THEN "vel_pert_method is set but kmperpixel=None"
    ELSE IF IsNone(c.kmperpixel) /\ c.mask_method = "incremental"
        THEN "mask_method='incremental' but kmperpixel=None"
    ELSE IF IsNone(c.timestep) /\ c.vel_pert_method # "None"
        THEN "vel_pert_method is set but timestep=None"
    ELSE IF IsNone(c.timestep) /\ c.mask_method = "incremental"
        THEN "mask_method='incremental' but timestep=None"
    ELSE ""

\* lines 260-308: the first error, "" when the arguments pass
ValidationError(c) ==
    IF _check_inputs(c) # "" THEN _check_inputs(c) ELSE CheckOptions(c)

(***************************************************************************)
(* The collaborators forecast() calls: extrapolation, cascade              *)
(* decomposition, the AR(p) model, the noise generators, probability       *)
(* matching and the time step binning.  A field of shape (m, n) is the     *)
(* row-major tuple of its m*n pixels; motion is along the x axis.          *)
(***************************************************************************)
Row(p, n) == ((p - 1) \div n) + 1
Col(p, n) == ((p - 1) % n) + 1
Width(shape) == shape[2]
NPix(shape) == shape[1] * shape[2]

Zeros(k) == [p \in 1..k |-> 0]

\* extrapolation.semilagrangian: the displacement accumulated over tdiff ticks
\* on top of displacement_prev (None: start from zero), in pixel*ticks
AdvectDisplacement(vel, tdiff, displacement_prev) ==
    LET d0 == IF IsNone(displacement_prev) THEN Zeros(Len(vel)) ELSE Val(displacement_prev)
    IN [p \in 1..Len(vel) |-> d0[p] + vel[p] * tdiff]

\* the field sampled at the departure points of the total displacement; a
\* departure point outside the domain gives outval
AdvectField(field, disp, n, outval) ==
    [p \in 1..Len(field) |->
        LET c == Col(p, n) - (disp[p] \div TicksPerStep)
        IN IF c >= 1 /\ c <= n THEN field[p - Col(p, n) + c] ELSE outval]

\* cascade decomposition with normalize=True: level i holds the pixels of
\* its band, off the mean of the field over the pixels of mask
LevelOf(p, n_levels) == ((p - 1) % n_levels) + 1

decomp_method(field, n_levels, mask) ==
    LET mu == NanMin([p \in 1..Len(field) |-> IF p \in mask THEN field[p] ELSE NaN])
    IN [cascade_levels |->
            [i \in 1..n_levels |->
                [p \in 1..Len(field) |->
                    IF LevelOf(p, n_levels) = i THEN Sub(field[p], mu) ELSE 0]],
        means |-> mu]

\* recomposition: the sum of the levels, back on the buffer's mean
RECURSIVE SumLevels(_, _, _)
SumLevels(levels, p, i) ==
    IF i = 0 THEN 0 ELSE Add(levels[i][p], SumLevels(levels, p, i - 1))

recomp_method(d) ==
    [p \in 1..Len(d.cascade_levels[1]) |->
        Add(SumLevels(d.cascade_levels, p, Len(d.cascade_levels)), d.means)]

\* autoregression.estimate_ar_params_yw: ar_order coefficients and the
\* innovation term
estimate_ar_params_yw(ar_order) ==
    [k \in 1..(ar_order + 1) |-> IF k = 1 THEN 2 ELSE 1]

\* autoregression.iterate_ar_model: x holds the last ar_order fields, oldest
\* first; eps is None or the noise field
RECURSIVE ARSum(_, _, _, _)
ARSum(x, ph, p, i) ==
    IF i = 0 THEN 0
    ELSE Add(Mul(ph[i], x[Len(x) - i + 1][p]), ARSum(x, ph, p, i - 1))

iterate_ar_model(x, ph, eps) ==
    LET x_new == [p \in 1..Len(x[1]) |->
                    IF IsNone(eps) THEN ARSum(x, ph, p, Len(ph) - 1)
                    ELSE Add(ARSum(x, ph, p, Len(ph) - 1), Mul(ph[Len(ph)], Val(eps)[p]))]
    IN Tail(x) \o <<x_new>>

\* np.random.RandomState(seed) and its draws: the stream is its state
RandomState(seed) == seed % RandMod
Advance(rs) == (2 * rs + 1) % RandMod
randint(rs) == Advance(rs)

\* noise.generate_noise: a field drawn from the stream
generate_noise(rs, npix) == [p \in 1..npix |-> ((rs + p) % 3) - 1]

\* noise.motion.initialize_bps draws the perturbation once from the stream;
\* generate_bps scales it by the elapsed time t (ticks * timestep)
init_vel_noise(rs) == [eps |-> (rs % 3) - 1]
generate_vel_noise(vp, telapsed, npix) ==
    [p \in 1..npix |-> vp.eps * (1 + (telapsed \div TicksPerStep))]

\* probmatching.nonparam_match_empirical_cdf: the value of rank r in the
\* forecast becomes the value of rank r in the observation
RankIn(f, p) ==
    Cardinality({q \in Pixels(f) : f[q] < f[p] \/ (f[q] = f[p] /\ q < p)}) + 1

FlatSort(f) == sorted(f)

nonparam_match_empirical_cdf(f, obs) ==
    [p \in Pixels(f) |-> FlatSort(obs)[RankIn(f, p)]]

\* nowcasts.utils.compute_percentile_mask: the pixels at or above the value
\* whose rank from the top is the wet area
compute_percentile_mask(f, wet) ==
    IF wet = 0 THEN {}
    ELSE LET thr == FlatSort(f)[Len(f) - wet + 1]
         IN {p \in Pixels(f) : f[p] >= thr}

\* nowcasts.utils.binned_timesteps, on ticks: bin b (from 0) holds the
\* indices (from 0) of the times in [b, b+1) steps; bins 0..ceil(last time)
CeilSteps(x) == (x + TicksPerStep - 1) \div TicksPerStep

\* a binning in which a time on a bin's right edge belongs to the bin
binned_right_closed(ot) ==
    [b \in 1..(CeilSteps(ot[Len(ot)]) + 1) |->
        SelectSeq([i \in 1..Len(ot) |-> i - 1],
                  LAMBDA i : CeilSteps(ot[i + 1]) = b - 1)]

binned_timesteps(ot) ==
    [b \in 1..(CeilSteps(ot[Len(ot)]) + 1) |->
        SelectSeq([i \in 1..Len(ot) |-> i - 1],
                  LAMBDA i : ot[i + 1] \div TicksPerStep = b - 1)]

\* scipy.ndimage.binary_dilation with the cross-shaped structure iterated
\* to radius r: the pixels within r steps of the set, on the (m, n) grid
AbsVal(x) == IF x < 0 THEN -x ELSE x

binary_dilation(S, r, shape) ==
    {p \in 1..NPix(shape) :
        \E q \in S : AbsVal(Row(p, Width(shape)) - Row(q, Width(shape)))
                     + AbsVal(Col(p, Width(shape)) - Col(q, Width(shape))) <= r}

(***************************************************************************)
(* forecast(): helpers of the initialization, lines 363-608.               *)
(***************************************************************************)
NLevels == 2           \* n_cascade_levels of the runs drawn

Members(c) == 1..c.n_ens_members
AllPixels(c) == 1..NPix(c.shape)

GE(a, b) == a # NaN /\ a >= b
GT(a, b) == a # NaN /\ b # NaN /\ a > b

\* precip[-(ar_order + 1):, :, :]
Truncate(c) ==
    SubSeq(c.precip, Len(c.precip) - c.ar_order, Len(c.precip))

\* np.logical_or.reduce of the frames' non-finite pixels, as a set
DomainMask(P) ==
    {p \in Pixels(P[1]) : \E i \in 1..Len(P) : ~IsFinite(P[i][p])}

\* the conditional threshold mask of lines 394-399; None means every pixel
MaskThr(c, P) ==
    IF c.conditional
    THEN {p \in Pixels(P[1]) : \A i \in 1..Len(P) : GE(P[i][p], Val(c.precip_thr))}
    ELSE Pixels(P[1])

\* every frame advected by one time step
AlignFrameOneStep(P, i, c) ==
    AdvectField(P[i], AdvectDisplacement(c.velocity, TicksPerStep, None),
                Width(c.shape), NanMin(P[i]))

\* f(precip, i): frame i (from 1) advected by ar_order - (i - 1) time steps,
\* pixels from outside the domain filled with the frame's minimum
AlignFrame(P, i, c) ==
    AdvectField(P[i],
                AdvectDisplacement(c.velocity, (c.ar_order - (i - 1)) * TicksPerStep, None),
                Width(c.shape), NanMin(P[i]))

\* without dask: precip[i, :, :] = f(precip, i) for i = 0..ar_order-1, in place
RECURSIVE AlignInPlace(_, _, _)
AlignInPlace(P, k, c) ==
    IF k = 0 THEN P
    ELSE LET Q == AlignInPlace(P, k - 1, c)
         IN [Q EXCEPT ![k] = AlignFrame(Q, k, c)]

\* with dask: the delayed f(precip, i) stacked with precip[-1]
AlignDelayed(P, c) ==
    [i \in 1..(c.ar_order + 1) |-> IF i <= c.ar_order THEN AlignFrame(P, i, c) ELSE P[Len(P)]]

Aligned(P, c) == IF c.dask THEN AlignDelayed(P, c) ELSE AlignInPlace(P, c.ar_order, c)

\* lines 425-428: non-finite values replaced by the frame's minimum
Impute(P) ==
    [i \in 1..Len(P) |->
        [p \in Pixels(P[i]) |-> IF IsFinite(P[i][p]) THEN P[i][p] ELSE NanMin(P[i])]]

NoiseMethods == {"parametric", "nonparametric", "ssft", "nested"}

\* lines 437-464, on the integer grid: 1/(0.75 + 0.09 k) rounded
NoiseStdCoeffs(c) ==
    [k \in 1..c.n_cascade_levels |->
        IF c.noise_stddev_adj = "fixed"
        THEN (200 + (75 + 9 * k)) \div (2 * (75 + 9 * k))
        ELSE 1]

\* lines 470-482: the decompositions of the ar_order+1 input fields
Decompositions(c, P) ==
    [i \in 1..(c.ar_order + 1) |-> decomp_method(P[i], c.n_cascade_levels, MaskThr(c, Truncate(c)))]

\* lines 486 and 514: per level the normalized cascades of the frames, of
\* which the last ar_order are kept
StackCascades(c, D) ==
    [lev \in 1..c.n_cascade_levels |->
        [k \in 1..c.ar_order |-> D[k + 1].cascade_levels[lev]]]

\* lines 523-533: the seed each member's streams are created with.  The
\* seed of member j's precipitation stream is SeedOf(seed, j, "prec").
RECURSIVE SeedOf(_, _, _)
SeedOf(seed, j, which) ==
    IF which = "prec"
    THEN IF j = 1 THEN seed ELSE randint(RandomState(SeedOf(seed, j - 1, "motion")))
    ELSE randint(RandomState(SeedOf(seed, j, "prec")))

\* a stream: the seed it was created with and its state after the draw of
\* the next seed
Stream(seed) == [seed |-> seed, state |-> Advance(RandomState(seed))]

\* _compute_incremental_mask(Rbin, kr, r): the dilated mask plus a rim of r
\* further dilations, as weights w/max
RECURSIVE RimSets(_, _, _)
RimSets(S, k, shape) ==
    IF k = 0 THEN <<S>>
    ELSE <<S>> \o RimSets(binary_dilation(S, 1, shape), k - 1, shape)

_compute_incremental_mask(Rbin, kr, r, shape) ==
    LET Rd == binary_dilation(Rbin, kr, shape)
        rims == RimSets(Rd, r, shape)
        mask == [p \in 1..NPix(shape) |-> Cardinality({k \in 1..Len(rims) : p \in rims[k]})]
    IN [w |-> mask, max |-> SetMax(Range(mask))]

\* lines 572-575: the radius of the structuring element
StructRadius(c) ==
    LET n == Val(c.timestep) \div Val(c.kmperpixel)
        it == IF n >= 1 THEN (n - 1) \div 2 ELSE 0
    IN IF it < 2 THEN 1 ELSE it

Wet(f, thr) == {p \in Pixels(f) : GE(f[p], thr)}

(***************************************************************************)
(* The arguments drawn.  Precipitation fields are 2 x 3, thresholds and    *)
(* resolutions are 1.                                                      *)
(***************************************************************************)
MaxLen == 3            \* longest explicit list of requested times drawn
MaxTick == 6           \* latest requested time drawn, in ticks

IntSteps(n) == [type |-> "int", n |-> n, ts |-> <<>>]
ListSteps(ts) == [type |-> "list", n |-> 0, ts |-> ts]

RECURSIVE SeqsUpTo(_, _)
SeqsUpTo(S, k) ==
    IF k = 0 THEN {<<>>}
    ELSE LET R == SeqsUpTo(S, k - 1)
         IN R \cup {Append(r, x) : r \in {q \in R : Len(q) = k - 1}, x \in S}

TimestepInputs ==
    {IntSteps(n) : n \in 0..MaxSteps} \cup {ListSteps(ts) : ts \in SeqsUpTo(0..MaxTick, MaxLen)}

History == << <<2, 0, 0, 1, 0, 0>>, <<1, 2, 0, 3, 1, 0>>, <<0, 1, 2, 0, 3, 1>> >>
HistoryNaN == << <<NaN, 0, 0, 1, 0, 0>>, <<1, 2, 0, 3, 1, 0>>, <<0, 1, 2, 0, 3, NaN>> >>
HistoryLong == << <<3, 3, 3, 3, 3, NaN>> >> \o History
HistorySparse == << <<0, 0, 0, 0, 0, 2>>, <<0, 0, 0, 0, 2, 1>>, <<0, 0, 0, 1, 1, 2>> >>
\* frames with missing and infinite values, and histories made of them
FramesNonFinite ==
    { <<NaN, 0, 0, 1, 0, 0>>, <<1, 2, 0, 3, 1, 0>>, <<2, NaN, 1, 3, NaN, 2>>,
      <<NaN, NaN, NaN, NaN, NaN, NaN>>, <<PosInf, 1, NaN, 2, 0, 0>>,
      <<NegInf, 2, NaN, 1, 0, 3>> }
HistoriesNonFinite == [1..3 -> FramesNonFinite]

HistoryDry == << <<0, 0, 0, 0, 0, 0>>, <<0, 0, 0, 0, 0, 0>>, <<0, 0, 0, 0, 0, 0>> >>

Still == <<0, 0, 0, 0, 0, 0>>
Eastward == <<1, 1, 1, 0, 0, 0>>
NonFinite == <<0, NaN, 0, 0, 0, 0>>

Base ==
    [precip |-> History, precip_ndim |-> 3, shape |-> <<2, 3>>,
     velocity |-> Eastward, velocity_ndim |-> 3,
     timesteps |-> IntSteps(MaxSteps),
     n_ens_members |-> MaxEns, n_cascade_levels |-> NLevels,
     precip_thr |-> Some(1), kmperpixel |-> Some(1), timestep |-> Some(1),
     noise_method |-> "nonparametric", noise_stddev_adj |-> "None",
     ar_order |-> 2, vel_pert_method |-> "bps", conditional |-> FALSE,
     probmatching_method |-> "cdf", mask_method |-> "incremental",
     callback |-> TRUE, return_output |-> TRUE, seed |-> Some(1),
     num_workers |-> 1, measure_time |-> FALSE, dask |-> FALSE, mask_rim |-> 1]

\* the options of a run, over an ensemble run with or without dask
OptionInputs ==
    {[Base EXCEPT !.noise_method = nm, !.vel_pert_method = vp, !.mask_method = mm,
                  !.probmatching_method = pm, !.n_ens_members = n, !.dask = d,
                  !.timesteps = ts, !.callback = cb] :
        nm \in {"None", "nonparametric"}, vp \in {"None", "bps"}, mm \in MaskMethods,
        pm \in {"cdf", "mean", "None"}, n \in 1..MaxEns, d \in BOOLEAN,
        ts \in {IntSteps(MaxSteps), ListSteps(<<2, 4, 6>>)}, cb \in BOOLEAN}

\* the requested times, with and without noise, for a single member
TimeInputs ==
    {[Base EXCEPT !.timesteps = ts, !.precip = HistoryNaN, !.noise_method = nm,
                  !.vel_pert_method = (IF nm = "None" THEN "None" ELSE "bps"),
                  !.mask_method = "sprog", !.n_ens_members = 1] :
        ts \in TimestepInputs, nm \in {"None", "nonparametric"}}

\* seeds and worker counts, with and without dask, under a mask of the
\* member and under the mask of the companion trajectory
SeedInputs ==
    {[Base EXCEPT !.seed = sd, !.dask = d, !.num_workers = nw, !.mask_method = mm] :
        sd \in {None, Some(1), Some(2)}, d \in BOOLEAN, nw \in {1, MaxEns},
        mm \in {"incremental", "sprog"}}

\* timing and output retention
ReturnInputs ==
    {[Base EXCEPT !.measure_time = mt, !.return_output = ro] :
        mt \in BOOLEAN, ro \in BOOLEAN}

\* other histories and motion fields
FieldInputs ==
    {[Base EXCEPT !.precip = h, !.velocity = v, !.dask = d] :
        h \in {History, HistoryNaN, HistoryLong, HistoryDry}, v \in {Still, Eastward},
        d \in BOOLEAN}

\* lists of times that leave a whole time step without a requested time
GapInputs ==
    {[Base EXCEPT !.timesteps = ListSteps(ts), !.vel_pert_method = vp,
                  !.n_ens_members = 1] :
        ts \in {<<2, 10>>, <<9>>}, vp \in {"None", "bps"}}

\* a history with few wet pixels, under the incremental mask with and
\* without a rim
MaskInputs ==
    {[Base EXCEPT !.precip = HistorySparse, !.velocity = Still, !.mask_rim = r,
                  !.probmatching_method = pm, !.seed = sd] :
        r \in {0, 1}, pm \in {"cdf", "mean", "None"}, sd \in {Some(1), Some(3)}}

\* histories with missing and infinite values, moved or not, aligned with
\* and without dask
ImputationInputs ==
    {[Base EXCEPT !.precip = h, !.velocity = v, !.dask = d] :
        h \in HistoriesNonFinite, v \in {Still, Eastward}, d \in BOOLEAN}

OtherInputs == SeedInputs \cup ReturnInputs \cup FieldInputs \cup GapInputs \cup MaskInputs

\* the deterministic scenario: three fields, AR(2), no motion, no noise, no
\* motion perturbation, no mask, one member, three time steps
Scenario ==
    [Base EXCEPT !.velocity = Still, !.noise_method = "None", !.vel_pert_method = "None",
                 !.mask_method = "None", !.probmatching_method = "None",
                 !.n_ens_members = 1, !.timesteps = IntSteps(3)]

\* conditional statistics and the fixed noise adjustment
StatInputs ==
    {[Base EXCEPT !.conditional = TRUE, !.noise_stddev_adj = adj, !.precip = h] :
        adj \in {"None", "fixed", "auto"}, h \in {History, HistoryNaN}}

RunInputs == OptionInputs \cup TimeInputs \cup OtherInputs \cup StatInputs \cup {Scenario}

\* the arguments the validation decides on, for a single member
ValidationInputs ==
    {[Base EXCEPT !.mask_method = mm, !.conditional = cd, !.precip_thr = thr,
                  !.kmperpixel = km, !.timestep = dt, !.noise_stddev_adj = adj,
                  !.vel_pert_method = vp, !.velocity = v, !.timesteps = ts,
                  !.probmatching_method = pm, !.noise_method = nm,
                  !.n_ens_members = 1] :
        mm \in MaskMethods \cup {"bogus"}, cd \in BOOLEAN, thr \in {None, Some(1)},
        km \in {None, Some(1)}, dt \in {None, Some(1)},
        adj \in NoiseStddevAdjs \cup {"bogus"}, vp \in {"None", "bps"},
        v \in {Eastward, NonFinite},
        ts \in {IntSteps(1), ListSteps(<<1, 2>>), ListSteps(<<4, 4, 8>>), ListSteps(<<2, 1>>)},
        pm \in {"cdf", "mean", "bogus"}, nm \in {"nonparametric", "bogus"}}

\* arrays of the wrong rank or shape
ShapeInputs ==
    {[Base EXCEPT !.precip_ndim = pn, !.velocity_ndim = vn, !.precip = h, !.velocity = v] :
        pn \in {2, 3}, vn \in {2, 3}, h \in {History, SubSeq(History, 1, 2)},
        v \in {Eastward, <<1, 1, 1, 1>>}}

InitWith(C) ==
    /\ cfg \in C
    /\ pc = "check"
    /\ err = ""
    /\ precip = Unset
    /\ domain_mask = {}
    /\ phi = Unset
    /\ noise_std_coeffs = Unset
    /\ precip_c = Unset
    /\ precip_d = Unset
    /\ randgen_prec = Unset
    /\ randgen_motion = Unset
    /\ vps = Unset
    /\ displacement = Unset
    /\ precip_f = Unset
    /\ mu_0 = Unset
    /\ precip_m = Unset
    /\ precip_m_d = Unset
    /\ mask_prec = Unset
    /\ war = Unset
    /\ precip_f_prev = Unset
    /\ t_prev = Unset
    /\ t_total = Unset
    /\ timesteps = Unset
    /\ t = 0
    /\ todo = {}
    /\ res = Unset
    /\ cb_log = <<>>
    /\ retval = Unset

Init == InitWith(RunInputs)

InitValidation == InitWith(ValidationInputs \cup ShapeInputs)

(***************************************************************************)
(* forecast(), lines 260-308: the arguments are checked.                   *)
(***************************************************************************)
Raise(e) ==
    /\ pc' = "error"
    /\ err' = e

Validate ==
    /\ pc = "check"
    /\ IF ValidationError(cfg) # ""
       THEN Raise(ValidationError(cfg))
       ELSE pc' = "validated" /\ err' = err
    /\ UNCHANGED <<cfg, precip, domain_mask, phi, noise_std_coeffs, precip_c,
                   precip_d, randgen_prec, randgen_motion, vps, displacement,
                   precip_f, mu_0, precip_m, precip_m_d, mask_prec, war,
                   precip_f_prev, t_prev, t_total, timesteps, t, todo, res,
                   cb_log, retval>>

(***************************************************************************)
(* forecast(), lines 363-428: truncation, domain mask, Lagrangian          *)
(* alignment, imputation.                                                  *)
(***************************************************************************)
Align ==
    /\ pc = "validated"
    /\ domain_mask' = DomainMask(Truncate(cfg))
    /\ precip' = Impute(Aligned(Truncate(cfg), cfg))
    /\ pc' = "aligned"
    /\ UNCHANGED <<cfg, err, phi, noise_std_coeffs, precip_c,
                   precip_d, randgen_prec, randgen_motion, vps, displacement,
                   precip_f, mu_0, precip_m, precip_m_d, mask_prec, war,
                   precip_f_prev, t_prev, t_total, timesteps, t, todo, res,
                   cb_log, retval>>

(***************************************************************************)
(* forecast(), lines 430-608: noise generator, cascades, AR(p) model,      *)
(* random streams, velocity perturbators, masks, companion trajectory,     *)
(* time step normalization.                                                *)
(***************************************************************************)
\* the first exception of lines 430-608, "" when there is none
SetupError(c) ==
    IF c.noise_method # "None" /\ c.noise_method \notin NoiseMethods
        THEN "ValueError: unknown noise method"                  \* line 432
    ELSE IF c.vel_pert_method # "None" /\ c.vel_pert_method # "bps"
        THEN "ValueError: unknown velocity perturbation method"  \* line 536
    ELSE IF c.vel_pert_method # "None" /\ c.noise_method = "None"
        THEN "UnboundLocalError: randgen_motion"                 \* line 542
    ELSE IF c.probmatching_method = "mean" /\ IsNone(c.precip_thr)
        THEN "TypeError: '>=' not supported for None"            \* line 553
    ELSE ""

\* lines 597-603
NormalizedTimesteps(c) ==
    IF c.timesteps.type = "int"
    THEN [k \in 1..(c.timesteps.n + 1) |-> k - 1]
    ELSE binned_timesteps(<<0>> \o c.timesteps.ts)

original_timesteps(c) == <<0>> \o c.timesteps.ts

\* the seed the chain of lines 526-533 starts from: the seed given, or the
\* entropy RandomState(None) takes
FirstSeeds(c) == IF IsNone(c.seed) THEN 0..(RandMod - 1) ELSE {Val(c.seed)}

\* the mask taken from the oldest of the observations
InitialMaskOfOldest(c, P) ==
    LET first == P[1]
    IN IF c.mask_method = "None" THEN Unset
       ELSE IF c.mask_method = "incremental"
       THEN _compute_incremental_mask(Wet(first, Val(c.precip_thr)), StructRadius(c),
                                      c.mask_rim, c.shape)
       ELSE [p \in Pixels(first) |-> p \in Wet(first, Val(c.precip_thr))]

\* lines 557-578: the mask of the latest observation at set-up: the wet
\* pixels, under 'incremental' one dilated mask per member
InitialMask(c, P) ==
    LET last == P[Len(P)]
    IN IF c.mask_method = "None" THEN Unset
       ELSE IF c.mask_method = "incremental"
       THEN _compute_incremental_mask(Wet(last, Val(c.precip_thr)), StructRadius(c),
                                      c.mask_rim, c.shape)
       ELSE [p \in Pixels(last) |-> p \in Wet(last, Val(c.precip_thr))]

\* lines 523-547: member j's streams and velocity perturbator, s0 being the
\* seed the chain starts from; the perturbator is drawn from the motion
\* stream
InitialPrecStream(c, s0, j) ==
    IF c.noise_method # "None" THEN Stream(SeedOf(s0, j, "prec")) ELSE Unset

InitialMotionStream(c, s0, j) ==
    IF c.vel_pert_method # "None"
    THEN [Stream(SeedOf(s0, j, "motion")) EXCEPT !.state = Advance(@)]
    ELSE Stream(SeedOf(s0, j, "motion"))

InitialPerturbator(c, s0, j) ==
    IF c.vel_pert_method # "None"
    THEN init_vel_noise(Stream(SeedOf(s0, j, "motion")).state)
    ELSE Unset

\* lines 486-520, 549-550, 605-608: the state a member starts the loop with
InitialMember(c, P, s0, j) ==
    [precip_c |-> StackCascades(c, Decompositions(c, P)),
     precip_d |-> Decompositions(c, P)[c.ar_order + 1],
     randgen_prec |-> InitialPrecStream(c, s0, j),
     vps |-> InitialPerturbator(c, s0, j),
     mask_prec |-> IF c.mask_method = "incremental" THEN InitialMask(c, P) ELSE Unset,
     displacement |-> None,
     precip_f_prev |-> P[Len(P)],
     t_prev |-> 0,
     t_total |-> 0]

\* line 552-553
InitialMu0(c, P) ==
    IF c.probmatching_method = "mean"
    THEN Some(MeanOver(P[Len(P)], Wet(P[Len(P)], Val(c.precip_thr))))
    ELSE Unset

\* lines 562-566 and 580-581: the deterministic companion starts from the
\* cascades of member 0
InitialCompanion(c, P) ==
    IF c.mask_method = "sprog" \/ c.noise_method = "None"
    THEN Some(StackCascades(c, Decompositions(c, P)))
    ELSE None

Setup ==
    /\ pc = "aligned"
    /\ IF SetupError(cfg) # ""
       THEN /\ Raise(SetupError(cfg))
            /\ UNCHANGED <<phi, noise_std_coeffs, precip_c, precip_d, randgen_prec,
                           randgen_motion, vps, displacement, precip_f, mu_0,
                           precip_m, precip_m_d, mask_prec, war, precip_f_prev,
                           t_prev, t_total, timesteps>>
       ELSE \E s0 \in FirstSeeds(cfg) :
            \E M0 \in {[j \in Members(cfg) |-> InitialMember(cfg, precip, s0, j)]} :
            /\ noise_std_coeffs' =
                 IF cfg.noise_method # "None" THEN NoiseStdCoeffs(cfg) ELSE Unset
            /\ phi' = [lev \in 1..cfg.n_cascade_levels |-> estimate_ar_params_yw(cfg.ar_order)]
            /\ precip_c' = [j \in Members(cfg) |-> M0[j].precip_c]
            /\ precip_d' = [j \in Members(cfg) |-> M0[j].precip_d]
            /\ randgen_prec' = IF cfg.noise_method # "None"
                               THEN [j \in Members(cfg) |-> M0[j].randgen_prec]
                               ELSE Unset
            /\ randgen_motion' = IF cfg.noise_method # "None"
                                 THEN [j \in Members(cfg) |-> InitialMotionStream(cfg, s0, j)]
                                 ELSE Unset
            /\ vps' = IF cfg.vel_pert_method # "None"
                      THEN [j \in Members(cfg) |-> M0[j].vps]
                      ELSE Unset
            /\ displacement' = [j \in Members(cfg) |-> M0[j].displacement]
            /\ precip_f' = [j \in Members(cfg) |-> <<>>]
            /\ mu_0' = InitialMu0(cfg, precip)
            /\ mask_prec' = IF cfg.mask_method = "incremental"
                            THEN [j \in Members(cfg) |-> M0[j].mask_prec]
                            ELSE InitialMask(cfg, precip)
            /\ war' = IF cfg.mask_method = "sprog"
                      THEN <<Cardinality(Wet(precip[Len(precip)], Val(cfg.precip_thr))),
                             NPix(cfg.shape)>>
                      ELSE Unset
            /\ precip_m' = InitialCompanion(cfg, precip)
            /\ precip_m_d' = IF cfg.mask_method = "sprog" THEN Some(M0[1].precip_d) ELSE Unset
            /\ timesteps' = NormalizedTimesteps(cfg)
            /\ precip_f_prev' = [j \in Members(cfg) |-> M0[j].precip_f_prev]
            /\ t_prev' = [j \in Members(cfg) |-> M0[j].t_prev]
            /\ t_total' = [j \in Members(cfg) |-> M0[j].t_total]
            /\ pc' = "loop"
            /\ err' = err
    /\ UNCHANGED <<cfg, precip, domain_mask, t, todo, res, cb_log, retval>>

(***************************************************************************)
(* forecast.worker(j, t, subtimesteps), lines 617-761, as a function of    *)
(* member j's state M and of what the members share, G.                    *)
(***************************************************************************)
\* lines 618-636 and 641-643: the noise cascade, None without noise
NoiseCascade(c, M, G) ==
    IF c.noise_method # "None"
    THEN Bind(LAMBDA eps :
                Some([i \in 1..c.n_cascade_levels |->
                        [p \in AllPixels(c) |->
                            Mul(eps.cascade_levels[i][p], G.noise_std_coeffs[i])]]),
              decomp_method(generate_noise(M.randgen_prec.state, NPix(c.shape)),
                            c.n_cascade_levels, AllPixels(c)))
    ELSE None

\* lines 639-654: the AR(p) model iterated on the member's cascades, or the
\* deterministic companion taken over
EvolveCascades(c, M, G) ==
    Bind(LAMBDA eps :
           [i \in 1..c.n_cascade_levels |->
              IF ~IsNone(eps) \/ c.vel_pert_method # "None"
              THEN iterate_ar_model(M.precip_c[i], G.phi[i],
                                    IF IsNone(eps) THEN None ELSE Some(Val(eps)[i]))
              ELSE Val(G.precip_m)[i]],
         NoiseCascade(c, M, G))

\* lines 661-666: the recomposition buffer and the recomposed field
Recompose(d, cascades) ==
    recomp_method([d EXCEPT !.cascade_levels =
                      [i \in 1..Len(cascades) |-> cascades[i][Len(cascades[i])]]])

\* the mask applied with the excluded pixels set to the minimum of the
\* latest observation
MaskToObservedMin(c, M, G, f) ==
    IF c.mask_method = "None" THEN f
    ELSE LET R_cmin == FieldMin(G.precip)
             g == IF c.mask_method = "incremental"
                  THEN [p \in Pixels(f) |->
                          Add(R_cmin, Div(Mul(Sub(f[p], R_cmin), M.mask_prec.w[p]),
                                          M.mask_prec.max))]
                  ELSE f
             mask_prec_ == IF c.mask_method = "incremental"
                           THEN [p \in Pixels(f) |-> GT(g[p], R_cmin)]
                           ELSE G.mask_prec
         IN [p \in Pixels(f) |-> IF mask_prec_[p] THEN g[p] ELSE R_cmin]

\* lines 671-683: the precipitation mask applied
ApplyMask(c, M, G, f) ==
    IF c.mask_method = "None" THEN f
    ELSE LET R_cmin == FieldMin(f)
             g == IF c.mask_method = "incremental"
                  THEN [p \in Pixels(f) |->
                          Add(R_cmin, Div(Mul(Sub(f[p], R_cmin), M.mask_prec.w[p]),
                                          M.mask_prec.max))]
                  ELSE f
             mask_prec_ == IF c.mask_method = "incremental"
                           THEN [p \in Pixels(f) |-> GT(g[p], R_cmin)]
                           ELSE G.mask_prec
         IN [p \in Pixels(f) |-> IF mask_prec_[p] THEN g[p] ELSE R_cmin]

\* lines 685-694: probability matching
Match(c, G, f) ==
    IF c.probmatching_method = "cdf" THEN nonparam_match_empirical_cdf(f, G.precip)
    ELSE IF c.probmatching_method = "mean"
    THEN LET MASK == Wet(f, Val(c.precip_thr))
             mu_fct == MeanOver(f, MASK)
         IN [p \in Pixels(f) |->
               IF p \in MASK THEN Add(Sub(f[p], mu_fct), Val(G.mu_0)) ELSE f[p]]
    ELSE f

\* line 701
StampDomainMask(G, f) == [p \in Pixels(f) |-> IF p \in G.domain_mask THEN NaN ELSE f[p]]

\* the blend with the weights of the two fields exchanged
InterpolateTowardsPrevious(t_sub, f_prev, f_new) ==
    LET t_diff_prev_int == t_sub % TicksPerStep
    IN IF t_diff_prev_int > 0
       THEN [p \in Pixels(f_new) |->
               Add(Mul(t_diff_prev_int, f_prev[p]),
                   Mul(TicksPerStep - t_diff_prev_int, f_new[p]))]
       ELSE [p \in Pixels(f_prev) |-> Mul(TicksPerStep, f_prev[p])]

\* lines 713-719: the field handed to the advection for the requested time
\* t_sub, in units of 1/TicksPerStep
Interpolate(t_sub, f_prev, f_new) ==
    LET t_diff_prev_int == t_sub % TicksPerStep
    IN IF t_diff_prev_int > 0
       THEN [p \in Pixels(f_new) |->
               Add(Mul(TicksPerStep - t_diff_prev_int, f_prev[p]),
                   Mul(t_diff_prev_int, f_new[p]))]
       ELSE [p \in Pixels(f_prev) |-> Mul(TicksPerStep, f_prev[p])]

\* lines 724-728 and 746-748
PerturbedVelocity(c, M, ttotal) ==
    IF c.vel_pert_method # "None"
    THEN LET noise == generate_vel_noise(M.vps, ttotal * Val(c.timestep), NPix(c.shape))
         IN [p \in AllPixels(c) |-> c.velocity[p] + noise[p]]
    ELSE c.velocity

\* lines 711-738: the loop over the requested times of the step; A holds
\* displacement, t_prev, t_total and the outputs so far
RECURSIVE AdvectSubtimesteps(_, _, _, _, _, _)
AdvectSubtimesteps(c, M, f_new, subts, k, A) ==
    IF k > Len(subts) THEN A
    ELSE LET t_sub == subts[k]
         IN IF t_sub > 0
            THEN LET precip_f_ip == Interpolate(t_sub, M.precip_f_prev, f_new)
                     t_diff_prev == t_sub - A.t_prev
                     ttotal == A.t_total + t_diff_prev
                     vel_pert == PerturbedVelocity(c, M, ttotal)
                     disp == AdvectDisplacement(vel_pert, t_diff_prev, A.displacement)
                     precip_f_ep == AdvectField(precip_f_ip, disp, Width(c.shape), NaN)
                 IN AdvectSubtimesteps(c, M, f_new, subts, k + 1,
                        [displacement |-> Some(disp), t_prev |-> t_sub, t_total |-> ttotal,
                         out |-> Append(A.out, precip_f_ep)])
            ELSE AdvectSubtimesteps(c, M, f_new, subts, k + 1, A)

\* the accumulator advanced by one time step whatever time it has reached
AdvanceFullStep(c, M, tt, A) ==
    LET ttotal == A.t_total + TicksPerStep
        vel_pert == PerturbedVelocity(c, M, ttotal)
    IN [displacement |-> Some(AdvectDisplacement(vel_pert, TicksPerStep, A.displacement)),
        t_prev |-> (tt + 1) * TicksPerStep, t_total |-> ttotal, out |-> A.out]

\* lines 742-757: no requested time in the step
AdvanceOneStep(c, M, tt, A) ==
    LET t_diff_prev == (tt + 1) * TicksPerStep - A.t_prev
        ttotal == A.t_total + t_diff_prev
        vel_pert == PerturbedVelocity(c, M, ttotal)
    IN [displacement |-> Some(AdvectDisplacement(vel_pert, t_diff_prev, A.displacement)),
        t_prev |-> (tt + 1) * TicksPerStep, t_total |-> ttotal, out |-> A.out]

\* the mask of the pixels above the threshold, those at it left out
NextMaskStrictlyAbove(c, M, f) ==
    IF c.mask_method = "incremental"
    THEN _compute_incremental_mask({p \in Pixels(f) : GT(f[p], Val(c.precip_thr))},
                                   StructRadius(c), c.mask_rim, c.shape)
    ELSE M.mask_prec

\* line 696-699
NextIncrementalMask(c, M, f) ==
    IF c.mask_method = "incremental"
    THEN _compute_incremental_mask(Wet(f, Val(c.precip_thr)), StructRadius(c),
                                   c.mask_rim, c.shape)
    ELSE M.mask_prec

\* the member's state and outputs after the advection of lines 703-759
WorkerResult(c, M, cascades, matched, precip_f_new, A) ==
    [M |-> [precip_c |-> cascades,
            precip_d |-> [M.precip_d EXCEPT !.cascade_levels =
                            [i \in 1..Len(cascades) |-> cascades[i][Len(cascades[i])]]],
            randgen_prec |-> IF c.noise_method # "None"
                             THEN [M.randgen_prec EXCEPT !.state = Advance(@)]
                             ELSE M.randgen_prec,
            vps |-> M.vps,
            mask_prec |-> NextIncrementalMask(c, M, matched),
            displacement |-> A.displacement,
            precip_f_prev |-> precip_f_new,
            t_prev |-> A.t_prev,
            t_total |-> A.t_total],
     out |-> A.out]

\* lines 703-757: the advection to the requested times of the step, or by
\* one time step when there is none
Advected(c, M, tt, subtimesteps, precip_f_new) ==
    LET A0 == [displacement |-> M.displacement, t_prev |-> M.t_prev,
               t_total |-> M.t_total, out |-> <<>>]
    IN IF subtimesteps = <<>>
       THEN AdvanceOneStep(c, M, tt, A0)
       ELSE AdvectSubtimesteps(c, M, precip_f_new, subtimesteps, 1, A0)

worker(c, M, G, tt, subtimesteps) ==
    Bind(LAMBDA cascades :
      Bind(LAMBDA recomposed :
        Bind(LAMBDA matched :
          Bind(LAMBDA precip_f_new :
            Bind(LAMBDA A : WorkerResult(c, M, cascades, matched, precip_f_new, A),
                 Advected(c, M, tt, subtimesteps, precip_f_new)),
            StampDomainMask(G, matched)),
          Match(c, G, ApplyMask(c, M, G, recomposed))),
        Recompose(M.precip_d, cascades)),
      EvolveCascades(c, M, G))

(***************************************************************************)
(* forecast(), lines 764-846: the main loop.                               *)
(***************************************************************************)
\* the indices of the bin taken for the requested times
SubtimestepIndices(c, ts, tt) ==
    IF c.timesteps.type = "list" THEN ts[tt + 1] ELSE <<tt * TicksPerStep>>

\* lines 765-768: the requested times (ticks) of loop index tt
Subtimesteps(c, ts, tt) ==
    IF c.timesteps.type = "list"
    THEN [k \in 1..Len(ts[tt + 1]) |-> original_timesteps(c)[ts[tt + 1][k] + 1]]
    ELSE <<tt * TicksPerStep>>

\* one stream drawn from by every member
SharedStream(j) == 1

\* the stream member j's worker draws its noise from
StreamOf(j) == j

MemberState(j) ==
    [precip_c |-> precip_c[j],
     precip_d |-> precip_d[j],
     randgen_prec |-> IF randgen_prec = Unset THEN Unset ELSE randgen_prec[StreamOf(j)],
     vps |-> IF vps = Unset THEN Unset ELSE vps[j],
     mask_prec |-> IF cfg.mask_method = "incremental" THEN mask_prec[j] ELSE Unset,
     displacement |-> displacement[j],
     precip_f_prev |-> precip_f_prev[j],
     t_prev |-> t_prev[j],
     t_total |-> t_total[j]]

Shared ==
    [phi |-> phi, noise_std_coeffs |-> noise_std_coeffs, precip_m |-> precip_m,
     mask_prec |-> mask_prec, domain_mask |-> domain_mask, mu_0 |-> mu_0,
     precip |-> precip[Len(precip)]]

\* np.ndarray.squeeze(): the axes of length one removed
squeeze(shape) == SelectSeq(shape, LAMBDA d : d # 1)

\* the companion advanced only when noise is disabled
CompanionDueWithoutNoise(c) == c.noise_method = "None"

\* line 787: the deterministic companion is advanced in the iteration
CompanionDue(c) == c.noise_method = "None" \/ c.mask_method = "sprog"

\* lines 787-803, then the dispatch of the workers
LoopBegin ==
    /\ pc = "loop"
    /\ t < Len(timesteps)
    /\ IF CompanionDue(cfg)
       THEN LET m == [i \in 1..cfg.n_cascade_levels |->
                        iterate_ar_model(Val(precip_m)[i], phi[i], None)]
            IN /\ precip_m' = Some(m)
               /\ IF precip_m_d = Unset
                  THEN /\ Raise("UnboundLocalError: precip_m_d")
                       /\ UNCHANGED <<precip_m_d, mask_prec, todo, res>>
                  ELSE LET d == [Val(precip_m_d) EXCEPT !.cascade_levels =
                                    [i \in 1..Len(m) |-> m[i][Len(m[i])]]]
                           precip_m_ == recomp_method(d)
                       IN /\ precip_m_d' = Some(d)
                          /\ mask_prec' =
                               IF cfg.mask_method = "sprog"
                               THEN [p \in Pixels(precip_m_) |->
                                       p \in compute_percentile_mask(precip_m_, war[1])]
                               ELSE mask_prec
                          /\ pc' = "workers"
                          /\ err' = err
                          /\ todo' = Members(cfg)
                          /\ res' = [j \in Members(cfg) |-> <<>>]
       ELSE /\ pc' = "workers"
            /\ todo' = Members(cfg)
            /\ res' = [j \in Members(cfg) |-> <<>>]
            /\ UNCHANGED <<err, precip_m, precip_m_d, mask_prec>>
    /\ UNCHANGED <<cfg, precip, domain_mask, phi, noise_std_coeffs, precip_c,
                   precip_d, randgen_prec, randgen_motion, vps, displacement,
                   precip_f, mu_0, war, precip_f_prev, t_prev, t_total,
                   timesteps, t, cb_log, retval>>

\* the value x written over the entry of every member
AssignAll(xs, j, x) == [k \in DOMAIN xs |-> x]

\* lines 648-759: an assignment to entry j of a per-member list, as in
\* precip_f_prev[j] = precip_f_new
AssignAt(xs, j, x) == [xs EXCEPT ![j] = x]

\* lines 805-816: worker(j, t, subtimesteps) runs; in member order without
\* dask or with one member, in any order as a dask task
Worker(j) ==
    /\ pc = "workers"
    /\ j \in todo
    /\ (~cfg.dask \/ cfg.n_ens_members = 1) => \A k \in todo : j <= k
    /\ \E r \in {worker(cfg, MemberState(j), Shared, t, Subtimesteps(cfg, timesteps, t))} :
          /\ precip_c' = AssignAt(precip_c, j, r.M.precip_c)
          /\ precip_d' = AssignAt(precip_d, j, r.M.precip_d)
          /\ randgen_prec' = IF randgen_prec = Unset THEN randgen_prec
                             ELSE AssignAt(randgen_prec, StreamOf(j), r.M.randgen_prec)
          /\ mask_prec' = IF cfg.mask_method = "incremental"
                          THEN AssignAt(mask_prec, j, r.M.mask_prec)
                          ELSE mask_prec
          /\ displacement' = AssignAt(displacement, j, r.M.displacement)
          /\ precip_f_prev' = AssignAt(precip_f_prev, j, r.M.precip_f_prev)
          /\ t_prev' = AssignAt(t_prev, j, r.M.t_prev)
          /\ t_total' = AssignAt(t_total, j, r.M.t_total)
          /\ res' = AssignAt(res, j, r.out)
    /\ todo' = todo \ {j}
    /\ UNCHANGED <<cfg, pc, err, precip, domain_mask, phi, noise_std_coeffs,
                   randgen_motion, vps, precip_f, mu_0, precip_m, precip_m_d, war,
                   timesteps, t, cb_log, retval>>

\* lines 812-834: the outputs of the step are collected, handed to the
\* callback and retained
CallbackAlways(c, r) == c.callback

\* lines 825-827: the callback is called when one is given and the step has
\* put out a field
CallbackDue(c, r) == c.callback /\ Len(r[1]) > 0

\* some worker of the step has returned
SomeFinished(c, td) == td # Members(c)

\* lines 805-816: the loop over the members has ended, or dask.compute has
\* returned: every worker of the step has returned
AllFinished(c, td) == td = {}

Collect ==
    /\ pc = "workers"
    /\ AllFinished(cfg, todo)
    /\ cb_log' =
         IF CallbackDue(cfg, res)
         THEN Append(cb_log,
                     [t |-> t,
                      shape |-> squeeze(<<cfg.n_ens_members, Len(res[1])>> \o cfg.shape),
                      data |-> res])
         ELSE cb_log
    /\ precip_f' = IF cfg.return_output
                   THEN [j \in Members(cfg) |-> precip_f[j] \o res[j]]
                   ELSE precip_f
    /\ res' = Unset
    /\ t' = t + 1
    /\ pc' = "loop"
    /\ UNCHANGED <<cfg, err, precip, domain_mask, phi, noise_std_coeffs, precip_c,
                   precip_d, randgen_prec, randgen_motion, vps, displacement,
                   mu_0, precip_m, precip_m_d, mask_prec, war, precip_f_prev,
                   t_prev, t_total, timesteps, todo, retval>>

\* lines 836-846: the output array is assembled and returned
Return ==
    /\ pc = "loop"
    /\ t = Len(timesteps)
    /\ IF cfg.return_output
       THEN IF \E j \in Members(cfg) : precip_f[j] = <<>>
            THEN /\ Raise("ValueError: need at least one array to stack")
                 /\ retval' = retval
            ELSE /\ retval' = Some([kind |-> IF cfg.measure_time THEN "tuple" ELSE "ndarray",
                                    outarr |-> precip_f])
                 /\ pc' = "done"
                 /\ err' = err
       ELSE /\ retval' = Some([kind |-> "None", outarr |-> <<>>])
            /\ pc' = "done"
            /\ err' = err
    /\ UNCHANGED <<cfg, precip, domain_mask, phi, noise_std_coeffs, precip_c,
                   precip_d, randgen_prec, randgen_motion, vps, displacement,
                   precip_f, mu_0, precip_m, precip_m_d, mask_prec, war,
                   precip_f_prev, t_prev, t_total, timesteps, t, todo, res, cb_log>>

Next ==
    \/ Validate
    \/ Align
    \/ Setup
    \/ LoopBegin
    \/ \E j \in Members(cfg) : Worker(j)
    \/ Collect
    \/ Return

Spec == Init /\ [][Next]_vars

SpecValidation == InitValidation /\ [][Next]_vars

\* the run up to the imputation of line 428, on histories with missing and
\* infinite values
InitImputation == InitWith(ImputationInputs)

NextAlignment ==
    \/ Validate
    \/ Align

SpecImputation == InitImputation /\ [][NextAlignment]_vars

(***************************************************************************)
(* Properties.                                                             *)
(***************************************************************************)
Terminated == pc \in {"done", "error"}

\* the messages of the ValueErrors of lines 260-308
ValidationMessages ==
    {"precip must be a three-dimensional array",
     "precip.shape[0] < ar_order+1",
     "velocity must be a three-dimensional array",
     "dimension mismatch between precip and velocity",
     "timesteps is not in ascending order",
     "velocity contains non-finite values",
     "unknown mask method",
     "conditional=True but precip_thr is not set",
     "mask_method is not None but precip_thr is not set",
     "unknown noise_std_dev_adj method",
     "vel_pert_method is set but kmperpixel=None",
     "mask_method='incremental' but kmperpixel=None",
     "vel_pert_method is set but timestep=None",
     "mask_method='incremental' but timestep=None"}

\* no alignment, decomposition, stream or callback has happened
NothingComputed ==
    /\ precip = Unset
    /\ precip_c = Unset
    /\ phi = Unset
    /\ randgen_prec = Unset
    /\ randgen_motion = Unset
    /\ timesteps = Unset
    /\ cb_log = <<>>
    /\ retval = None

\* the call has left the argument checks with a validation error and
\* nothing computed
RejectedByValidation ==
    pc # "check" => /\ pc = "error"
                    /\ err \in ValidationMessages
                    /\ NothingComputed

\* the number of output times requested
RequestedCount(c) ==
    IF c.timesteps.type = "list" THEN Len(c.timesteps.ts) ELSE c.timesteps.n

\* the shape of the returned array: members, times, then the grid of the
\* fields
ShapeOf(outarr) ==
    IF \A j \in DOMAIN outarr : \A k \in DOMAIN outarr[j] :
          Len(outarr[j][k]) = NPix(cfg.shape)
    THEN <<Len(outarr), Len(outarr[1])>> \o cfg.shape
    ELSE <<>>

\* C1: when the arguments pass validation and return_output is true,
\* forecast returns an array of shape (n_ens_members, K, m, n), K the
\* number of requested output times
C1_OutputShape ==
    (Terminated /\ ValidationError(cfg) = "" /\ cfg.return_output)
        => /\ pc = "done"
           /\ Val(retval).kind \in {"ndarray", "tuple"}
           /\ ShapeOf(Val(retval).outarr)
                = <<cfg.n_ens_members, RequestedCount(cfg)>> \o cfg.shape

\* the members of the returned array agree at every output time
MembersAgree(outarr) ==
    \A j, k \in DOMAIN outarr : outarr[j] = outarr[k]

\* C2: with noise_method None and vel_pert_method None, under any of the
\* four mask modes, the forecast is produced and every member's field is
\* identical to every other's at every output time
C2_DeterministicMode ==
    (/\ Terminated
     /\ ValidationError(cfg) = ""
     /\ cfg.noise_method = "None"
     /\ cfg.vel_pert_method = "None"
     /\ cfg.mask_method \in MaskMethods
     /\ cfg.return_output
     /\ RequestedCount(cfg) > 0
     /\ (cfg.timesteps.type = "list" => cfg.timesteps.ts[1] > 0))
        => /\ pc = "done"
           /\ Len(Val(retval).outarr[1]) = RequestedCount(cfg)
           /\ MembersAgree(Val(retval).outarr)

\* the cascades after k iterations of the AR model without noise
RECURSIVE Trajectory(_, _, _)
Trajectory(C, ph, k) ==
    IF k = 0 THEN C
    ELSE Bind(LAMBDA prev : [i \in 1..Len(prev) |-> iterate_ar_model(prev[i], ph[i], None)],
              Trajectory(C, ph, k - 1))

\* the recomposition of the k-th iterate of the cascades of the scenario
ScenarioField(c, k) ==
    LET P == Impute(Aligned(Truncate(c), c))
        D == Decompositions(c, P)
        ph == [lev \in 1..c.n_cascade_levels |-> estimate_ar_params_yw(c.ar_order)]
        C == Trajectory(StackCascades(c, D), ph, k)
    IN Recompose(D[c.ar_order + 1], C)

\* C3: with three observations, zero velocity, no noise, no velocity
\* perturbation, no mask and T steps, T fields are returned, the k-th
\* being the recomposition of the k-th iterate of the AR(2) model
C3_ScenarioTrajectory ==
    (Terminated /\ cfg = Scenario)
        => /\ pc = "done"
           /\ Len(Val(retval).outarr[1]) = Scenario.timesteps.n
           /\ \A k \in 1..Scenario.timesteps.n :
                 Val(retval).outarr[1][k] = ScenarioField(Scenario, k)

\* the k-th seed drawn along the chain that starts at seed
RECURSIVE ChainSeed(_, _)
ChainSeed(seed, k) ==
    IF k = 1 THEN seed ELSE randint(RandomState(ChainSeed(seed, k - 1)))

\* the shared inputs of the workers at loop index tt, from the arguments
\* alone
SharedFrom(c, P, D, m) ==
    LET MaskOf(f, wet) ==
            IF c.mask_method = "sprog"
            THEN [p \in Pixels(f) |-> p \in compute_percentile_mask(f, Cardinality(wet))]
            ELSE IF c.mask_method = "obs"
            THEN [p \in Pixels(f) |-> p \in wet]
            ELSE Unset
    IN [phi |-> [lev \in 1..c.n_cascade_levels |-> estimate_ar_params_yw(c.ar_order)],
        noise_std_coeffs |-> IF c.noise_method # "None" THEN NoiseStdCoeffs(c) ELSE Unset,
        precip_m |-> IF c.mask_method = "sprog" \/ c.noise_method = "None"
                     THEN Some(m) ELSE None,
        mask_prec |-> IF c.mask_method = "None" THEN Unset
                      ELSE MaskOf(Recompose(D[c.ar_order + 1], m),
                                  Wet(P[Len(P)], Val(c.precip_thr))),
        domain_mask |-> DomainMask(Truncate(c)),
        mu_0 |-> InitialMu0(c, P),
        precip |-> P[Len(P)]]

SharedAt(c, P, tt) ==
    Bind(LAMBDA D :
           Bind(LAMBDA m : SharedFrom(c, P, D, m),
                Trajectory(StackCascades(c, D),
                           [lev \in 1..c.n_cascade_levels |->
                              estimate_ar_params_yw(c.ar_order)],
                           tt + 1)),
         Decompositions(c, P))

\* member j run alone in loop order for the first n loop indices: its
\* state and the fields it has put out
RECURSIVE MemberAlone(_, _, _, _, _)
MemberAlone(c, P, s0, j, n) ==
    IF n = 0 THEN [M |-> InitialMember(c, P, s0, j), out |-> <<>>]
    ELSE Bind(LAMBDA prev :
                Bind(LAMBDA G :
                       Bind(LAMBDA r : [M |-> r.M, out |-> prev.out \o r.out],
                            worker(c, prev.M, G, n - 1,
                                   Subtimesteps(c, NormalizedTimesteps(c), n - 1))),
                     SharedAt(c, P, n - 1)),
              MemberAlone(c, P, s0, j, n - 1))

ConditionalWithoutThreshold(c) == c.conditional /\ IsNone(c.precip_thr)
VelocityNonFinite(c) == \E p \in DOMAIN c.velocity : c.velocity[p] = NaN
HasDescent(ts) == \E i \in 1..Len(ts) - 1 : ts[i] > ts[i + 1]
ListUnsorted(c) == c.timesteps.type = "list" /\ HasDescent(c.timesteps.ts)

\* C5: conditional statistics without precip_thr, a velocity holding a
\* non-finite value, or a list of times that is not in ascending order,
\* raise a validation error before any alignment, seeding or callback
C5_InvalidArgumentsRejected ==
    (ConditionalWithoutThreshold(cfg) \/ VelocityNonFinite(cfg) \/ ListUnsorted(cfg))
        => RejectedByValidation

\* a call with conditional statistics and no threshold has been rejected
C5_Witness ==
    /\ pc = "error"
    /\ ConditionalWithoutThreshold(cfg)
    /\ err = "conditional=True but precip_thr is not set"

\* a list that is not strictly ascending: a descent or a repeated time
NotStrictlyAscending(c) ==
    /\ c.timesteps.type = "list"
    /\ \E i \in 1..Len(c.timesteps.ts) - 1 : c.timesteps.ts[i] >= c.timesteps.ts[i + 1]

\* C6 as stated: a list of requested times that is not strictly ascending
\* is rejected with a validation error before any computation
C6_StrictlyAscendingRequired ==
    NotStrictlyAscending(cfg) => RejectedByValidation

\* C6 amended: a list of requested times with a descent is rejected with
\* a validation error before any computation, and a list without one,
\* a repeated time included, is never refused for its order
C6_AscendingRequired ==
    /\ ListUnsorted(cfg) => RejectedByValidation
    /\ (cfg.timesteps.type = "list" /\ ~HasDescent(cfg.timesteps.ts))
          => err # "timesteps is not in ascending order"

\* a list with a descent, the other arguments being valid, has been
\* refused for its order
C6_Witness ==
    /\ pc = "error"
    /\ ListUnsorted(cfg)
    /\ CheckOptions(cfg) = ""
    /\ err = "timesteps is not in ascending order"

\* C7: probmatching_method 'mean' with mask_method None is rejected with a
\* validation error before any numerical work; no run reaches the main
\* loop with this combination
C7_MeanRequiresMask ==
    (cfg.probmatching_method = "mean" /\ cfg.mask_method = "None")
        => RejectedByValidation

\* C8: an unknown value of mask_method, probmatching_method or
\* noise_method is rejected with a validation error before any computation
C8_UnknownMethodsRejected ==
    (\/ cfg.mask_method \notin MaskMethods
     \/ cfg.probmatching_method \notin {"cdf", "mean", "None"}
     \/ cfg.noise_method \notin NoiseMethods \cup {"None"})
        => RejectedByValidation

\* the preconditions of C9
MaskWithoutThreshold(c) == c.mask_method # "None" /\ IsNone(c.precip_thr)
ScaleMissing(c) == IsNone(c.kmperpixel) \/ IsNone(c.timestep)
PerturbationWithoutScale(c) == c.vel_pert_method # "None" /\ ScaleMissing(c)
IncrementalWithoutScale(c) == c.mask_method = "incremental" /\ ScaleMissing(c)

\* C9: validation fails when precip_thr is absent and a mask is
\* requested, or when kmperpixel or timestep is absent and velocity
\* perturbation or the incremental mask is requested
C9_MissingArgumentsRejected ==
    (\/ MaskWithoutThreshold(cfg)
     \/ PerturbationWithoutScale(cfg)
     \/ IncrementalWithoutScale(cfg))
        => RejectedByValidation

\* a call with the incremental mask and no timestep has been rejected
C9_Witness ==
    /\ pc = "error"
    /\ cfg.mask_method = "incremental"
    /\ cfg.vel_pert_method = "None"
    /\ IsNone(cfg.timestep)
    /\ ~IsNone(cfg.kmperpixel)
    /\ err = "mask_method='incremental' but timestep=None"

\* C10: the callback is handed, once per step with output, an array of
\* shape (n_ens_members, h, w)
C10_CallbackShape ==
    \A i \in DOMAIN cb_log :
        cb_log[i].shape = <<cfg.n_ens_members>> \o cfg.shape

\* the requested times of loop index s that are later than the analysis time
PositiveTimes(c, ts, s) == SelectSeq(Subtimesteps(c, ts, s), LAMBDA x : x > 0)

\* the loop indices below k in which a field is put out, in ascending order
RECURSIVE OutputSteps(_, _, _)
OutputSteps(c, ts, k) ==
    IF k = 0 THEN <<>>
    ELSE OutputSteps(c, ts, k - 1)
           \o (IF PositiveTimes(c, ts, k - 1) # <<>> THEN <<k - 1>> ELSE <<>>)

\* the fields member j was seen to put out by the callbacks so far
RECURSIVE SeenByCallback(_, _)
SeenByCallback(log, j) ==
    IF log = <<>> THEN <<>>
    ELSE SeenByCallback(SubSeq(log, 1, Len(log) - 1), j) \o log[Len(log)].data[j]

InLoop == pc \in {"loop", "workers", "done"}

\* C11 as stated: with a callback, the calls made by the end of the run are
\* one for each of the steps 1..T, in ascending order
C11_OncePerStep ==
    (pc = "done" /\ cfg.callback)
        => [i \in 1..Len(cb_log) |-> cb_log[i].t]
             = [i \in 1..(Len(timesteps) - 1) |-> i]

\* C11 amended: with a callback, the calls made so far are one for each
\* completed step that put out a field, in ascending step order; none is
\* made for the step whose workers are running; each call holds the fields
\* of every member for its step
C11_OncePerOutputStep ==
    (InLoop /\ cfg.callback)
        => /\ [i \in 1..Len(cb_log) |-> cb_log[i].t] = OutputSteps(cfg, timesteps, t)
           /\ \A i \in 1..Len(cb_log) :
                /\ DOMAIN cb_log[i].data = Members(cfg)
                /\ \A j \in Members(cfg) :
                     Len(cb_log[i].data[j])
                       = Len(PositiveTimes(cfg, timesteps, cb_log[i].t))
           /\ cfg.return_output
                => \A j \in Members(cfg) : SeenByCallback(cb_log, j) = precip_f[j]

\* a run over a list of times has ended with a step that put out nothing
\* and had no call, after a call for a step of two members
C11_Witness ==
    /\ pc = "done"
    /\ cfg.callback
    /\ cfg.n_ens_members = 2
    /\ cfg.timesteps.type = "list"
    /\ Len(cb_log) > 0
    /\ Len(cb_log) < Len(timesteps)

\* C12: with measure_time set, the value returned is the three-element
\* tuple of the nowcast, the initialization time and the main loop time,
\* whether return_output is set or not
C12_TimingTuple ==
    (pc = "done" /\ cfg.measure_time) => Val(retval).kind = "tuple"

\* the field member j's worker recomposes in the step about to run, and
\* the field its mask stage makes of it
RecomposedBy(j) ==
    Bind(LAMBDA cascades : Recompose(precip_d[j], cascades),
         EvolveCascades(cfg, MemberState(j), Shared))

MaskedBy(j) ==
    Bind(LAMBDA f : ApplyMask(cfg, MemberState(j), Shared, f), RecomposedBy(j))

\* the pixels the mask in force for member j excludes
ExcludedFor(j) ==
    IF cfg.mask_method = "incremental"
    THEN {p \in AllPixels(cfg) : mask_prec[j].w[p] = 0}
    ELSE {p \in AllPixels(cfg) : ~mask_prec[p]}

\* x is the least value of the field f
IsLeastOf(x, f) == (\E q \in DOMAIN f : f[q] = x) /\ (\A q \in DOMAIN f : x <= f[q])

EmittedInStep(n) == \A j \in Members(cfg) \ todo : Len(res[j]) = n

\* the number of fields retained and the calls made once step 0 is over
AfterStepZero(n) ==
    /\ cfg.return_output => \A j \in Members(cfg) : Len(precip_f[j]) = n
    /\ \A i \in DOMAIN cb_log : cb_log[i].t = 0 => n > 0

BeforeFirstStep(c) ==
    IF c.timesteps.type = "list"
    THEN SelectSeq(c.timesteps.ts, LAMBDA x : 0 < x /\ x < TicksPerStep)
    ELSE <<>>

FractionalTimes == ListSteps(<<2, 4, 6>>)

TimesOfStep(c, s) ==
    SelectSeq(<<0>> \o c.timesteps.ts, LAMBDA x : x \div TicksPerStep = s)

WorkerOutcome(j) ==
    Bind(LAMBDA M :
      Bind(LAMBDA G :
        Bind(LAMBDA subts : worker(cfg, M, G, t, subts),
             Subtimesteps(cfg, timesteps, t)),
        Shared),
      MemberState(j))

\* the field handed to advection for the requested time x, in units of
\* 1/TicksPerStep: the blend of F_prev and F_new by the fractional part of
\* x, F_prev itself when x is whole
Blend(x, F_prev, F_new) ==
    [p \in DOMAIN F_new |->
        IF x % TicksPerStep = 0 THEN Mul(TicksPerStep, F_prev[p])
        ELSE Add(Mul(TicksPerStep - (x % TicksPerStep), F_prev[p]),
                 Mul(x % TicksPerStep, F_new[p]))]

\* the fields put out when Blend is advected to the times xs in turn, from
\* the displacement disp reached at time tp after ttot of elapsed time
RECURSIVE AdvectedBlends(_, _, _, _, _, _, _)
AdvectedBlends(M, F_prev, F_new, xs, disp, tp, ttot) ==
    IF xs = <<>> THEN <<>>
    ELSE \* the displacement reached at the first of the times
         Bind(LAMBDA d :
                <<AdvectField(Blend(Head(xs), F_prev, F_new), d, Width(cfg.shape), NaN)>>
                  \o AdvectedBlends(M, F_prev, F_new, Tail(xs), Some(d), Head(xs),
                                    ttot + (Head(xs) - tp)),
              AdvectDisplacement(PerturbedVelocity(cfg, M, ttot + (Head(xs) - tp)),
                                 Head(xs) - tp, disp))

\* C16: for every member and every requested time x > 0 the field handed to
\* advection is the blend of F_prev and F_new by the fractional part of x,
\* and F_prev when x is whole; F_new is the field of the worker step that
\* runs, kept as F_prev for the member's next step, F_prev is the latest
\* observation in the first step, and x is handled in step floor(x)
C16_BlendOfConsecutiveSteps ==
    (pc = "workers")
        => \A j \in todo : \A r \in {WorkerOutcome(j)} :
             /\ r.out = AdvectedBlends(MemberState(j), precip_f_prev[j],
                                       r.M.precip_f_prev,
                                       PositiveTimes(cfg, timesteps, t),
                                       displacement[j], t_prev[j], t_total[j])
             /\ r.M.precip_f_prev
                  = StampDomainMask(Shared, Match(cfg, Shared, MaskedBy(j)))
             /\ t = 0 => precip_f_prev[j] = precip[Len(precip)]
             /\ \A k \in DOMAIN r.out :
                  PositiveTimes(cfg, timesteps, t)[k] \div TicksPerStep = t

\* a worker is about to put out a field for a fractional time other than a
\* half in a step after the first, where the fields of the two steps differ
C16_Witness ==
    /\ pc = "workers"
    /\ t > 0
    /\ \E j \in todo : \A r \in {WorkerOutcome(j)} :
         /\ \E k \in DOMAIN r.out :
              /\ PositiveTimes(cfg, timesteps, t)[k] % TicksPerStep # 0
              /\ 2 * (PositiveTimes(cfg, timesteps, t)[k] % TicksPerStep) # TicksPerStep
         /\ r.M.precip_f_prev # precip_f_prev[j]

WorkerReturns == todo' # todo /\ todo' \subseteq todo

\* the workers of a step are dispatched
Dispatch == todo' # todo /\ ~(todo' \subseteq todo)

\* the companion trajectory and the mask derived from it stay as they are
CompanionKept ==
    /\ precip_m' = precip_m
    /\ precip_m_d' = precip_m_d
    /\ cfg.mask_method = "sprog" => mask_prec' = mask_prec

\* C18: the loop index advances and the workers of the next step are
\* dispatched only when every worker of the step has returned, a worker
\* runs for the loop index it was dispatched for, and the companion
\* trajectory and the sprog mask are not modified while a worker of the step
\* has yet to return; with and without dask, for every worker count
C18_StepBarrier ==
    [][/\ t' # t => (todo = {} /\ todo' = {} /\ t' = t + 1)
       /\ Dispatch => (todo = {} /\ todo' = Members(cfg) /\ t' = t)
       /\ WorkerReturns => (pc = "workers" /\ t' = t)
       /\ (pc = "workers" /\ todo # {}) => CompanionKept]_vars

\* under dask with two workers, in a step after the first, one member's
\* worker has returned and the other's has not, and the companion trajectory
\* drives the sprog mask
C18_Witness ==
    /\ pc = "workers"
    /\ cfg.dask
    /\ cfg.num_workers = MaxEns
    /\ cfg.n_ens_members = MaxEns
    /\ cfg.mask_method = "sprog"
    /\ precip_m # None
    /\ t > 0
    /\ todo # {}
    /\ todo # Members(cfg)
    /\ 1 \in todo

\* the per-member list b holds what a held, except perhaps at member j
SameButAt(a, b, j) == DOMAIN a = DOMAIN b /\ \A k \in DOMAIN a \ {j} : a[k] = b[k]

\* the worker of member j returns
WorkerOf(j) == j \in todo /\ todo' = todo \ {j}

\* the entries of the members other than j stay as they are
OthersKept(j) ==
    /\ SameButAt(precip_c, precip_c', j)
    /\ SameButAt(precip_d, precip_d', j)
    /\ SameButAt(randgen_prec, randgen_prec', j)
    /\ SameButAt(randgen_motion, randgen_motion', j)
    /\ SameButAt(vps, vps', j)
    /\ IF cfg.mask_method = "incremental" THEN SameButAt(mask_prec, mask_prec', j)
       ELSE mask_prec' = mask_prec
    /\ SameButAt(displacement, displacement', j)
    /\ SameButAt(precip_f_prev, precip_f_prev', j)
    /\ SameButAt(t_prev, t_prev', j)
    /\ SameButAt(t_total, t_total', j)
    /\ SameButAt(res, res', j)

\* what the members share stays as it is: the arguments with the motion
\* field, the AR coefficients, the noise adjustment coefficients, the domain
\* mask, the latest observation and its statistics, the companion trajectory
SharedKept ==
    /\ cfg' = cfg
    /\ phi' = phi
    /\ noise_std_coeffs' = noise_std_coeffs
    /\ domain_mask' = domain_mask
    /\ precip' = precip
    /\ mu_0' = mu_0
    /\ war' = war
    /\ precip_m' = precip_m
    /\ precip_m_d' = precip_m_d
    /\ timesteps' = timesteps

\* C19: the worker of member j writes member j's entries of the per-member
\* state only, and leaves what the members share unchanged
C19_WorkerWritesOwnEntries ==
    [][\A j \in Members(cfg) : WorkerOf(j) => (OthersKept(j) /\ SharedKept)]_vars

\* two members under the incremental mask and dask: the worker of the second
\* member has returned before that of the first, in a step where the two
\* members' cascades, streams and fields differ
C19_Witness ==
    /\ pc = "workers"
    /\ cfg.n_ens_members = MaxEns
    /\ cfg.mask_method = "incremental"
    /\ todo = {1}
    /\ t > 0
    /\ precip_c[1] # precip_c[2]
    /\ randgen_prec[1] # randgen_prec[2]
    /\ precip_f_prev[1] # precip_f_prev[2]

\* the per-member state the workers of a step read and write, and the
\* outputs of the step
PerMember ==
    [precip_c |-> precip_c, precip_d |-> precip_d, randgen_prec |-> randgen_prec,
     vps |-> vps, mask_prec |-> mask_prec, displacement |-> displacement,
     precip_f_prev |-> precip_f_prev, t_prev |-> t_prev, t_total |-> t_total,
     res |-> res]

\* what the worker of member j reads of the per-member state S
MemberOf(c, S, j) ==
    [precip_c |-> S.precip_c[j],
     precip_d |-> S.precip_d[j],
     randgen_prec |-> IF S.randgen_prec = Unset THEN Unset ELSE S.randgen_prec[StreamOf(j)],
     vps |-> IF S.vps = Unset THEN Unset ELSE S.vps[j],
     mask_prec |-> IF c.mask_method = "incremental" THEN S.mask_prec[j] ELSE Unset,
     displacement |-> S.displacement[j],
     precip_f_prev |-> S.precip_f_prev[j],
     t_prev |-> S.t_prev[j],
     t_total |-> S.t_total[j]]

\* the per-member state S once the worker of member j has returned r
WrittenBy(c, S, j, r) ==
    [precip_c |-> AssignAt(S.precip_c, j, r.M.precip_c),
     precip_d |-> AssignAt(S.precip_d, j, r.M.precip_d),
     randgen_prec |-> IF S.randgen_prec = Unset THEN S.randgen_prec
                      ELSE AssignAt(S.randgen_prec, StreamOf(j), r.M.randgen_prec),
     vps |-> S.vps,
     mask_prec |-> IF c.mask_method = "incremental"
                   THEN AssignAt(S.mask_prec, j, r.M.mask_prec)
                   ELSE S.mask_prec,
     displacement |-> AssignAt(S.displacement, j, r.M.displacement),
     precip_f_prev |-> AssignAt(S.precip_f_prev, j, r.M.precip_f_prev),
     t_prev |-> AssignAt(S.t_prev, j, r.M.t_prev),
     t_total |-> AssignAt(S.t_total, j, r.M.t_total),
     res |-> AssignAt(S.res, j, r.out)]

\* the per-member state reached from S when the workers of the members in
\* td run one after the other in member order
RECURSIVE RunInOrder(_, _, _, _, _, _)
RunInOrder(c, S, G, tt, subts, td) ==
    IF td = {} THEN S
    ELSE Bind(LAMBDA M :
           Bind(LAMBDA r :
             Bind(LAMBDA S2 : RunInOrder(c, S2, G, tt, subts, td \ {SetMin(td)}),
                  WrittenBy(c, S, SetMin(td), r)),
             worker(c, M, G, tt, subts)),
           MemberOf(c, S, SetMin(td)))

\* where the step ends when the workers still to run do so in member order
SequentialOutcome ==
    Bind(LAMBDA S :
      Bind(LAMBDA G :
        Bind(LAMBDA subts : RunInOrder(cfg, S, G, t, subts, todo),
             Subtimesteps(cfg, timesteps, t)),
        Shared),
      PerMember)

\* where the step ends when the worker of member j returns next and the
\* others still to run then do so in member order
OutcomeAfter(j) ==
    Bind(LAMBDA S :
      Bind(LAMBDA G :
        Bind(LAMBDA subts : RunInOrder(cfg, S, G, t, subts, todo \ {j}),
             Subtimesteps(cfg, timesteps, t)),
        Shared),
      WrittenBy(cfg, PerMember, j, WorkerOutcome(j)))

\* C20: whichever worker of a step returns next, be it not that of the
\* first member still to run, the per-member state and the outputs of the
\* step end where the run of the workers in member order ends, so that they
\* do in whatever order the workers return; the outputs are collected by
\* member, and the worker count plays no part
C20_AnyOrderAsMemberOrder ==
    /\ []((pc = "workers" /\ todo # {})
            => \A j \in todo \ {SetMin(todo)} :
                 \A o \in {SequentialOutcome} : OutcomeAfter(j) = o)
    /\ [][/\ \A j \in Members(cfg) :
                WorkerOf(j) => PerMember' = WrittenBy(cfg, PerMember, j, WorkerOutcome(j))
          /\ (pc = "workers" /\ pc' = "loop")
                => /\ todo = {}
                   /\ (cfg.return_output
                         => \A j \in Members(cfg) : precip_f'[j] = precip_f[j] \o res[j])]_vars

\* under dask the worker of the second member has returned before that of
\* the first, with noise, the two members' states differing and the first
\* member's worker about to put out a field
C20_Witness ==
    /\ pc = "workers"
    /\ cfg.dask
    /\ cfg.n_ens_members = MaxEns
    /\ cfg.noise_method # "None"
    /\ todo = {1}
    /\ res[2] # <<>>
    /\ MemberState(1) # MemberState(2)
    /\ PerMember # SequentialOutcome
    /\ cfg.num_workers = MaxEns

\* the requested output times, in ticks, in the order given
RequestedTimes(c) ==
    IF c.timesteps.type = "list" THEN c.timesteps.ts
    ELSE [k \in 1..c.timesteps.n |-> k * TicksPerStep]

\* the times of the fields put out in the loop indices below k, in the
\* order in which they are put out
RECURSIVE EmittedTimes(_, _, _)
EmittedTimes(c, ts, k) ==
    IF k = 0 THEN <<>>
    ELSE EmittedTimes(c, ts, k - 1) \o PositiveTimes(c, ts, k - 1)

\* C21: in the returned array row j holds the fields of member j's worker,
\* one field for each requested time, in ascending order of requested time
C21_RowsByMemberInTimeOrder ==
    (pc = "done" /\ cfg.return_output)
        => /\ EmittedTimes(cfg, timesteps, Len(timesteps)) = RequestedTimes(cfg)
           /\ \A j \in Members(cfg) :
                /\ Len(Val(retval).outarr[j]) = Len(RequestedTimes(cfg))
                /\ (~IsNone(cfg.seed) /\ cfg.noise_method # "None")
                     => Val(retval).outarr[j]
                          = MemberAlone(cfg, precip, Val(cfg.seed), j, Len(timesteps)).out

\* the time, in ticks, a member's advection has reached after its first k
\* worker steps: the last requested time of the step, the end of the step
\* when no time is requested in it
RECURSIVE TimeReached(_, _, _)
TimeReached(c, ts, k) ==
    IF k = 0 THEN 0
    ELSE IF Subtimesteps(c, ts, k - 1) = <<>> THEN k * TicksPerStep
    ELSE IF PositiveTimes(c, ts, k - 1) = <<>> THEN TimeReached(c, ts, k - 1)
    ELSE PositiveTimes(c, ts, k - 1)[Len(PositiveTimes(c, ts, k - 1))]

\* the times a worker of loop index tt advects to, in turn
AdvectionTargets(c, ts, tt) ==
    IF Subtimesteps(c, ts, tt) = <<>> THEN <<(tt + 1) * TicksPerStep>>
    ELSE PositiveTimes(c, ts, tt)

\* the displacement reached from disp at time from by advecting to the
\* times xs in turn, each over the interval since the time reached before,
\* with the motion perturbed for an elapsed time of x time steps
RECURSIVE DisplacedTo(_, _, _, _)
DisplacedTo(M, disp, from, xs) ==
    IF xs = <<>> THEN disp
    ELSE Bind(LAMBDA d : DisplacedTo(M, Some(d), Head(xs), Tail(xs)),
              AdvectDisplacement(PerturbedVelocity(cfg, M, Head(xs)),
                                 Head(xs) - from, disp))

\* the worker steps member j has run
StepsRun(j) == IF pc = "workers" /\ j \notin todo THEN t + 1 ELSE t

\* C22: after every worker step of member j t_total[j] equals t_prev[j] and
\* is the time the advection has reached, the intervals applied to the
\* displacement accumulator, in steps with and without output, adding up to
\* the requested time x when a field for x is put out, and the motion
\* perturbation generated for an elapsed time of x time steps
C22_ElapsedTimeIsRequestedTime ==
    (pc \in {"loop", "workers", "done"})
        => \A j \in Members(cfg) :
             /\ t_total[j] = t_prev[j]
             /\ t_prev[j] = TimeReached(cfg, timesteps, StepsRun(j))
             /\ (cfg.vel_pert_method = "None" /\ displacement[j] # None)
                  => Val(displacement[j])
                       = [p \in AllPixels(cfg) |-> cfg.velocity[p] * t_total[j]]
             /\ (pc = "workers" /\ j \in todo)
                  => \A r \in {WorkerOutcome(j)} :
                       /\ r.M.displacement
                            = DisplacedTo(MemberState(j), displacement[j], t_prev[j],
                                          AdvectionTargets(cfg, timesteps, t))
                       /\ r.M.t_total = TimeReached(cfg, timesteps, t + 1)

\* a member with perturbed motion is about to put out a field for a time
\* that follows a time step without a requested time, which follows a step
\* that ended at a fractional time
C22_Witness ==
    /\ pc = "workers"
    /\ cfg.vel_pert_method # "None"
    /\ t > 1
    /\ Subtimesteps(cfg, timesteps, t - 1) = <<>>
    /\ TimeReached(cfg, timesteps, t - 1) % TicksPerStep # 0
    /\ \E j \in todo :
         /\ PositiveTimes(cfg, timesteps, t) # <<>>
         /\ t_prev[j] = t * TicksPerStep
         /\ WorkerOutcome(j).out # <<>>

\* noise is disabled and the motion is perturbed, the scales being given
PerturbedWithoutNoise(c) ==
    /\ c.noise_method = "None"
    /\ c.vel_pert_method # "None"
    /\ ~IsNone(c.kmperpixel)
    /\ ~IsNone(c.timestep)

\* C23: with noise disabled and the motion perturbed, forecast passes the
\* validation, the initialization and the main loop, every worker step
\* advancing the member's own cascades by the AR(p) model without noise and
\* advecting with the member's perturbed motion
C23_PerturbedMotionWithoutNoise ==
    PerturbedWithoutNoise(cfg)
        => /\ pc # "error"
           /\ (pc = "workers")
                => \A j \in todo : \A r \in {WorkerOutcome(j)} :
                     /\ r.M.precip_c
                          = [i \in 1..cfg.n_cascade_levels |->
                               iterate_ar_model(precip_c[j][i], phi[i], None)]
                     /\ vps # Unset
                     /\ r.M.displacement
                          = DisplacedTo(MemberState(j), displacement[j], t_prev[j],
                                        AdvectionTargets(cfg, timesteps, t))

\* the loop iterations begun so far
IterationsBegun == IF pc = "workers" THEN t + 1 ELSE t

\* the companion trajectory after n iterations of the AR model without
\* noise from the cascades of the observations
CompanionAfter(n) ==
    Bind(LAMBDA C : Trajectory(C, phi, n), StackCascades(cfg, Decompositions(cfg, precip)))

\* the mask of the wet area ratio of the observation on the recomposition
\* of the companion trajectory m
CompanionMask(m) ==
    Bind(LAMBDA f : [p \in Pixels(f) |-> p \in compute_percentile_mask(f, war[1])],
         Recompose(Decompositions(cfg, precip)[cfg.ar_order + 1], m))

\* the field f with the pixels outside the mask set to its minimum
MaskedWith(mask, f) == [p \in Pixels(f) |-> IF mask[p] THEN f[p] ELSE FieldMin(f)]

\* C24: the deterministic companion is advanced once in every loop
\* iteration, before the workers of the iteration are dispatched, if and
\* only if noise is disabled or the mask is 'sprog'; under 'sprog' the mask
\* every member applies in a step is the one derived from the companion as
\* advanced in that step
C24_CompanionOncePerIteration ==
    (pc \in {"loop", "workers", "done"})
        => IF cfg.noise_method = "None" \/ cfg.mask_method = "sprog"
           THEN \A m \in {CompanionAfter(IterationsBegun)} :
                  /\ precip_m = Some(m)
                  /\ (pc = "workers" /\ cfg.mask_method = "sprog")
                       => \A mask \in {CompanionMask(m)} :
                            /\ mask_prec = mask
                            /\ \A j \in todo : \A f \in {RecomposedBy(j)} :
                                  ApplyMask(cfg, MemberState(j), Shared, f)
                                    = MaskedWith(mask, f)
           ELSE precip_m = None

\* with noise and the sprog mask, two members whose fields differ are about
\* to apply, in a step after the first, a mask that is not that of the wet
\* pixels of the latest observation and changes the field of one of them
C24_Witness ==
    /\ pc = "workers"
    /\ cfg.mask_method = "sprog"
    /\ cfg.noise_method # "None"
    /\ cfg.n_ens_members = MaxEns
    /\ todo = Members(cfg)
    /\ t > 0
    /\ mask_prec # [p \in AllPixels(cfg) |->
                      p \in Wet(precip[Len(precip)], Val(cfg.precip_thr))]
    /\ RecomposedBy(1) # RecomposedBy(2)
    /\ \E j \in todo : MaskedBy(j) # RecomposedBy(j)

\* the mask of the latest observation at or above the threshold, dilated
ObservedIncrementalMask ==
    _compute_incremental_mask(Wet(precip[Len(precip)], Val(cfg.precip_thr)),
                              StructRadius(cfg), cfg.mask_rim, cfg.shape)

\* the field of member j's step about to run, after the mask and the
\* probability matching
RescaledBy(j) == Bind(LAMBDA g : Match(cfg, Shared, g), MaskedBy(j))

\* the dilated mask of the pixels of the field f at or above the threshold
DilatedWet(f) ==
    _compute_incremental_mask(Wet(f, Val(cfg.precip_thr)), StructRadius(cfg),
                              cfg.mask_rim, cfg.shape)

\* C25: under the incremental mask member j's mask is, before its first
\* step, the dilated mask of the latest observation; the worker of member j
\* applies member j's mask and replaces it by the dilated mask of the pixels
\* at or above the threshold of its own field of the step, after the mask
\* and the probability matching; nothing else changes a member's mask
C25_IncrementalMaskOfOwnField ==
    /\ []((cfg.mask_method = "incremental" /\ pc \in {"loop", "workers", "done"})
            => \A j \in Members(cfg) :
                 /\ StepsRun(j) = 0 => mask_prec[j] = ObservedIncrementalMask
                 /\ (pc = "workers" /\ j \in todo)
                      => /\ MemberState(j).mask_prec = mask_prec[j]
                         /\ \A r \in {WorkerOutcome(j)} :
                              r.M.mask_prec = DilatedWet(RescaledBy(j)))
    /\ [][(cfg.mask_method = "incremental" /\ pc \in {"loop", "workers"})
            => \A j \in Members(cfg) :
                 mask_prec'[j] = IF WorkerOf(j) THEN WorkerOutcome(j).M.mask_prec
                                 ELSE mask_prec[j]]_vars

\* in a step after the first two members under the incremental mask are
\* about to apply different masks, derived from their fields of the step
\* before and not both that of the observation
C25_Witness ==
    /\ pc = "workers"
    /\ cfg.mask_method = "incremental"
    /\ cfg.n_ens_members = MaxEns
    /\ t > 0
    /\ todo = Members(cfg)
    /\ mask_prec[1] # mask_prec[2]
    /\ \E j \in todo : mask_prec[j] # ObservedIncrementalMask

\* the pixels of the latest observation, aligned and imputed, at or above
\* the threshold
ObservedMask ==
    [p \in AllPixels(cfg) |-> p \in Wet(precip[Len(precip)], Val(cfg.precip_thr))]

\* C26: under the 'obs' mask the mask is that of the pixels of the latest
\* observation at or above the threshold throughout the loop, and every
\* member applies it in every step
C26_ObservedMaskIsStatic ==
    (cfg.mask_method = "obs" /\ pc \in {"loop", "workers", "done"})
        => /\ mask_prec = ObservedMask
           /\ pc = "workers"
                => \A j \in todo : \A f \in {RecomposedBy(j)} :
                      ApplyMask(cfg, MemberState(j), Shared, f) = MaskedWith(ObservedMask, f)

\* in a step after the first, two members with different fields are about
\* to apply the mask of the observation, which changes the field of one
C26_Witness ==
    /\ pc = "workers"
    /\ cfg.mask_method = "obs"
    /\ cfg.n_ens_members = MaxEns
    /\ t > 0
    /\ todo = Members(cfg)
    /\ RecomposedBy(1) # RecomposedBy(2)
    /\ \E j \in todo : MaskedBy(j) # RecomposedBy(j)
    /\ \E p, q \in AllPixels(cfg) : ObservedMask[p] /\ ~ObservedMask[q]

\* the frame f moved along the motion field over k time steps, the pixels
\* that come from outside the domain holding the least finite value of f
MovedBy(f, k) ==
    [p \in Pixels(f) |->
        LET col == Col(p, Width(cfg.shape)) - k * cfg.velocity[p]
        IN IF col >= 1 /\ col <= Width(cfg.shape)
           THEN f[p - Col(p, Width(cfg.shape)) + col]
           ELSE NanMin(f)]

\* the ar_order + 1 latest input frames, the frame at index i (0 the oldest
\* of them) moved over ar_order - i time steps
LagrangianStack ==
    [i \in 1..(cfg.ar_order + 1) |->
        MovedBy(cfg.precip[Len(cfg.precip) - cfg.ar_order - 1 + i], cfg.ar_order + 1 - i)]

\* the alignment and the imputation are over
AfterAlignment == pc \notin {"check", "validated", "error"}

\* C27: the alignment takes the ar_order + 1 latest frames, moves the frame
\* at index i over ar_order - i time steps and leaves the latest as it is,
\* with the same stack whether the frames are aligned in place one after
\* the other or as independent tasks
C27_LagrangianAlignment ==
    AfterAlignment
        => /\ precip = Impute(LagrangianStack)
           /\ Impute(AlignInPlace(Truncate(cfg), cfg.ar_order, cfg))
                = Impute(AlignDelayed(Truncate(cfg), cfg))
           /\ \A p \in AllPixels(cfg) :
                IsFinite(cfg.precip[Len(cfg.precip)][p])
                  => precip[Len(precip)][p] = cfg.precip[Len(cfg.precip)][p]

\* more frames than the AR model needs have been aligned as independent
\* tasks along a motion that moves the older frames
C27_Witness ==
    /\ pc = "aligned"
    /\ cfg.dask
    /\ Len(cfg.precip) > cfg.ar_order + 1
    /\ \E p \in AllPixels(cfg) : cfg.velocity[p] # 0
    /\ precip[1] # Impute(Truncate(cfg))[1]
    /\ precip[2] # Impute(Truncate(cfg))[2]
    /\ precip[1] # MovedBy(Truncate(cfg)[1], 1)

(***************************************************************************)
(* Imputation of the non-finite pixels (lines 425-428).                    *)
(***************************************************************************)
\* the stack as aligned, before line 428
BeforeImputation == Aligned(Truncate(cfg), cfg)

HasFinite(f) == \E p \in Pixels(f) : IsFinite(f[p])

\* the least of the finite values of f
FiniteMin(f) == SetMin({f[p] : p \in {q \in Pixels(f) : IsFinite(f[q])}})

\* C28: after alignment and imputation every frame of the history stack
\* with at least one finite pixel holds only finite values: a pixel that was
\* non-finite holds the least finite value of its own frame, a pixel that
\* was finite is unchanged.
C28_ImputedWithOwnFiniteMinimum ==
    AfterAlignment
        => \A A \in {BeforeImputation} : \A i \in 1..Len(A) :
               HasFinite(A[i])
                   => \A p \in Pixels(A[i]) :
                          /\ IsFinite(precip[i][p])
                          /\ IsFinite(A[i][p]) => precip[i][p] = A[i][p]
                          /\ ~IsFinite(A[i][p]) => precip[i][p] = FiniteMin(A[i])

====
